---- MODULE Spec2Model ----
(***************************************************************************)
(* A model of @guardspine/kernel: canonical JSON, content hashing, the     *)
(* hash chain and its root (seal.ts), and offline verification (verify.ts).*)
(*                                                                         *)
(* JavaScript values are tagged records.  A string is a tuple of           *)
(* characters; a character is a one-character TLA+ string, or a named      *)
(* code point such as "U+D800".  SHA-256 is modelled as collision free:    *)
(* the digest of a byte string is that byte string written in an alphabet  *)
(* of its own ("%" before every character), so two digests are equal       *)
(* exactly when the hashed bytes are.                                      *)
(***************************************************************************)
EXTENDS Integers, Sequences, FiniteSets, TLC

(***************************************************************************)
(* JavaScript values                                                       *)
(***************************************************************************)
Undefined == [t |-> "undefined"]
Null == [t |-> "null"]
NaN == [t |-> "nan"]
Bool(b) == [t |-> "boolean", v |-> b]
Num(n) == [t |-> "number", v |-> n]
Str(s) == [t |-> "string", v |-> s]
Arr(a) == [t |-> "array", v |-> a]
\* an object literal: members in insertion order, keys distinct
Obj(members) == [t |-> "object", v |-> members]
\* an object of one of the schema's shapes: field name -> value, a field may be absent
Rec(r) == [t |-> "record", r |-> r]

IsString(x) == x.t = "string"
IsArray(x) == x.t = "array"
\* absence as undefined alone
IsNullish_UndefinedOnly(x) == x.t = "undefined"

IsNullish(x) == x.t \in {"undefined", "null"}

\* JavaScript truthiness (the ! and && of the source)
Truthy(x) ==
  CASE x.t \in {"undefined", "null", "nan"} -> FALSE
    [] x.t = "boolean" -> x.v
    [] x.t = "number" -> x.v # 0
    [] x.t = "string" -> x.v # <<>>
    [] OTHER -> TRUE

\* o.f : undefined when the field is absent or o is a primitive.
\* (o.f on null or undefined throws: the callers ask IsNullish(o) before Get.)
Get(o, f) == IF o.t = "record" /\ f \in DOMAIN o.r THEN o.r[f] ELSE Undefined

\* strict equality === on the values the source compares with it
StrictEq(x, y) == x.t = y.t /\ (x.t \in {"undefined", "null"} \/ (x.t # "nan" /\ x = y))

(***************************************************************************)
(* Characters and UTF-8                                                    *)
(***************************************************************************)
LoneSurrogates == {"U+D800", "U+DC00"}
ReplacementChar == "U+FFFD"

\* Buffer.from(s, "utf-8") and hash.update(s, "utf-8"): an unpaired surrogate
\* is encoded as U+FFFD; every other character has its own encoding.
Utf8(s) == [i \in 1..Len(s) |-> IF s[i] \in LoneSurrogates THEN ReplacementChar ELSE s[i]]

LowerCase ==
  <<"a", "b", "c", "d", "e", "f", "g", "h", "i", "j", "k", "l", "m",
    "n", "o", "p", "q", "r", "s", "t", "u", "v", "w", "x", "y", "z">>

\* UTF-16 code units of a character (what Array.prototype.sort compares)
CodeUnits(c) ==
  CASE c = "\"" -> <<34>>
    [] c = "\\" -> <<92>>
    [] c = "_" -> <<95>>
    [] \E i \in 1..26 : LowerCase[i] = c -> <<96 + (CHOOSE i \in 1..26 : LowerCase[i] = c)>>
    [] c = "|" -> <<124>>
    [] c = "U+D800" -> <<55296>>
    [] c = "U+DC00" -> <<56320>>
    [] c = "U+FF5E" -> <<65374>>
    [] c = "U+FFFD" -> <<65533>>
    [] c = "U+1F600" -> <<55357, 56832>>

RECURSIVE Utf16(_)
Utf16(s) == IF s = <<>> THEN <<>> ELSE CodeUnits(Head(s)) \o Utf16(Tail(s))

RECURSIVE SeqLess(_, _)
SeqLess(a, b) ==
  IF b = <<>> THEN FALSE
  ELSE IF a = <<>> THEN TRUE
  ELSE IF Head(a) # Head(b) THEN Head(a) < Head(b)
  ELSE SeqLess(Tail(a), Tail(b))

(***************************************************************************)
(* canonical.ts                                                            *)
(***************************************************************************)
RECURSIVE Digits(_)
Digits(n) == IF n < 10 THEN <<ToString(n)>> ELSE Digits(n \div 10) \o <<ToString(n % 10)>>

\* Number.prototype.toString of an integer below 1e20
NumberToString(n) == IF n < 0 THEN <<"-">> \o Digits(-n) ELSE Digits(n)

serializeNumber(num) ==
  IF num.t = "nan" THEN <<"n", "u", "l", "l">> ELSE NumberToString(num.v)

\* JSON.stringify of one character of a string
EscapeChar(c) ==
  CASE c = "\"" -> <<"\\", "\"">>
    [] c = "\\" -> <<"\\", "\\">>
    [] c = "U+D800" -> <<"\\", "u", "d", "8", "0", "0">>
    [] c = "U+DC00" -> <<"\\", "u", "d", "c", "0", "0">>
    [] OTHER -> <<c>>

\* the concatenation of a list of sequences
RECURSIVE Flatten(_)
Flatten(lists) ==
  IF Len(lists) = 0 THEN <<>>
  ELSE IF Len(lists) = 1 THEN lists[1]
  ELSE LET half == Len(lists) \div 2
       IN Flatten(SubSeq(lists, 1, half)) \o Flatten(SubSeq(lists, half + 1, Len(lists)))

EscapeAll(s) == Flatten([i \in 1..Len(s) |-> EscapeChar(s[i])])

serializeString(text) == <<"\"">> \o EscapeAll(text) \o <<"\"">>

RECURSIVE InsertKey(_, _)
InsertKey(k, sorted) ==
  IF sorted = <<>> THEN <<k>>
  ELSE IF SeqLess(Utf16(k), Utf16(Head(sorted))) THEN <<k>> \o sorted
  ELSE <<Head(sorted)>> \o InsertKey(k, Tail(sorted))

\* Object.keys(obj) without its sort(): the insertion order
SortKeys_Unsorted(keys) == keys

\* Object.keys(obj).sort(): ascending by UTF-16 code units
RECURSIVE SortKeys(_)
SortKeys(keys) == IF keys = <<>> THEN <<>> ELSE InsertKey(Head(keys), SortKeys(Tail(keys)))

\* the property names of the schema's objects, as strings
FieldChars(f) ==
  CASE f = "bundle_id" -> <<"b", "u", "n", "d", "l", "e", "_", "i", "d">>
    [] f = "version" -> <<"v", "e", "r", "s", "i", "o", "n">>
    [] f = "created_at" -> <<"c", "r", "e", "a", "t", "e", "d", "_", "a", "t">>
    [] f = "items" -> <<"i", "t", "e", "m", "s">>
    [] f = "immutability_proof" ->
         <<"i", "m", "m", "u", "t", "a", "b", "i", "l", "i", "t", "y", "_", "p", "r", "o", "o", "f">>
    [] f = "signatures" -> <<"s", "i", "g", "n", "a", "t", "u", "r", "e", "s">>
    [] f = "metadata" -> <<"m", "e", "t", "a", "d", "a", "t", "a">>
    [] f = "item_id" -> <<"i", "t", "e", "m", "_", "i", "d">>
    [] f = "content_type" -> <<"c", "o", "n", "t", "e", "n", "t", "_", "t", "y", "p", "e">>
    [] f = "content" -> <<"c", "o", "n", "t", "e", "n", "t">>
    [] f = "content_hash" -> <<"c", "o", "n", "t", "e", "n", "t", "_", "h", "a", "s", "h">>
    [] f = "sequence" -> <<"s", "e", "q", "u", "e", "n", "c", "e">>
    [] f = "hash_chain" -> <<"h", "a", "s", "h", "_", "c", "h", "a", "i", "n">>
    [] f = "root_hash" -> <<"r", "o", "o", "t", "_", "h", "a", "s", "h">>
    [] f = "previous_hash" -> <<"p", "r", "e", "v", "i", "o", "u", "s", "_", "h", "a", "s", "h">>
    [] f = "chain_hash" -> <<"c", "h", "a", "i", "n", "_", "h", "a", "s", "h">>
    [] f = "signature_id" -> <<"s", "i", "g", "n", "a", "t", "u", "r", "e", "_", "i", "d">>
    [] f = "signature_value" ->
         <<"s", "i", "g", "n", "a", "t", "u", "r", "e", "_", "v", "a", "l", "u", "e">>
    [] f = "algorithm" -> <<"a", "l", "g", "o", "r", "i", "t", "h", "m">>
    [] f = "public_key_id" -> <<"p", "u", "b", "l", "i", "c", "_", "k", "e", "y", "_", "i", "d">>

RECURSIVE SetToSeq(_)
SetToSeq(S) == IF S = {} THEN <<>> ELSE LET x == CHOOSE x \in S : TRUE
                                       IN <<x>> \o SetToSeq(S \ {x})

\* the own properties of an object of one of the schema's shapes
RecordMembers(rec) ==
  LET fields == SetToSeq(DOMAIN rec.r)
  IN Obj([i \in 1..Len(fields) |-> [k |-> FieldChars(fields[i]), v |-> rec.r[fields[i]]]])

ObjectKeys(obj) == [i \in 1..Len(obj.v) |-> obj.v[i].k]
Member(obj, key) == obj.v[CHOOSE i \in 1..Len(obj.v) : obj.v[i].k = key].v

RECURSIVE JoinComma(_)
JoinComma(parts) ==
  IF parts = <<>> THEN <<>>
  ELSE IF Len(parts) = 1 THEN parts[1]
  ELSE parts[1] \o <<",">> \o JoinComma(Tail(parts))

RECURSIVE serializeValue(_)
serializeArray(arr) ==
  <<"[">> \o JoinComma([i \in 1..Len(arr.v) |-> serializeValue(arr.v[i])]) \o <<"]">>

serializeObject(obj) ==
  LET keys == SortKeys(ObjectKeys(obj))
      kept == SelectSeq(keys, LAMBDA k : Member(obj, k).t # "undefined")
      pairs == [i \in 1..Len(kept) |->
                 serializeString(kept[i]) \o <<":">> \o serializeValue(Member(obj, kept[i]))]
  IN <<"{">> \o JoinComma(pairs) \o <<"}">>

serializeValue(value) ==
  CASE value.t = "null" -> <<"n", "u", "l", "l">>
    [] value.t = "boolean" -> IF value.v THEN <<"t", "r", "u", "e">>
                                         ELSE <<"f", "a", "l", "s", "e">>
    [] value.t \in {"number", "nan"} -> serializeNumber(value)
    [] value.t = "string" -> serializeString(value.v)
    [] value.t = "array" -> serializeArray(value)
    [] value.t = "object" -> serializeObject(value)
    [] value.t = "record" -> serializeObject(RecordMembers(value))
    [] OTHER -> <<"n", "u", "l", "l">>

canonicalJson(value) == serializeValue(value)

(***************************************************************************)
(* seal.ts                                                                 *)
(***************************************************************************)
GENESIS_HASH == <<"g", "e", "n", "e", "s", "i", "s">>

\* createHash("sha256").update(data, "utf-8").digest("hex"), with its prefix
HexDigest(bytes) == [i \in 1..Len(bytes) |-> "%" \o bytes[i]]
sha256(data) == <<"sha256:">> \o HexDigest(Utf8(data))

computeContentHash(content) == sha256(canonicalJson(content))


\* `${x}` in a template literal
TemplateString(x) ==
  CASE x.t = "string" -> x.v
    [] x.t = "number" -> NumberToString(x.v)
    [] x.t = "nan" -> <<"N", "a", "N">>
    [] x.t = "null" -> <<"n", "u", "l", "l">>
    [] x.t = "boolean" -> IF x.v THEN <<"t", "r", "u", "e">> ELSE <<"f", "a", "l", "s", "e">>
    [] OTHER -> <<"u", "n", "d", "e", "f", "i", "n", "e", "d">>

chainHashV020(sequence, itemId, contentType, contentHash, previousHash) ==
  sha256(TemplateString(sequence) \o <<"|">> \o TemplateString(itemId) \o <<"|">>
         \o TemplateString(contentType) \o <<"|">> \o TemplateString(contentHash)
         \o <<"|">> \o TemplateString(previousHash))

chainHashLegacy(sequence, contentHash, previousHash) ==
  sha256(TemplateString(sequence) \o <<"|">> \o TemplateString(contentHash)
         \o <<"|">> \o TemplateString(previousHash))

\* options?.proofVersion ?? "v0.2.0"   (options: a record, the field may be absent)
resolveProofVersion(options) ==
  IF "proofVersion" \in DOMAIN options THEN options.proofVersion ELSE "v0.2.0"

MAX_CHAIN_ITEMS == 10000

\* the link of buildHashChain with every previous_hash the genesis sentinel
BuildLink_Unlinked(items, seq, chain, version) ==
  LET itemContentHash == Str(computeContentHash(items[seq + 1].content))
      previousHash == Str(GENESIS_HASH)
      chainHash ==
        IF version = "legacy"
        THEN chainHashLegacy(Num(seq), itemContentHash, previousHash)
        ELSE chainHashV020(Num(seq), items[seq + 1].contentId, items[seq + 1].contentType,
                           itemContentHash, previousHash)
  IN Rec([sequence |-> Num(seq),
          item_id |-> items[seq + 1].contentId,
          content_type |-> items[seq + 1].contentType,
          content_hash |-> itemContentHash,
          previous_hash |-> previousHash,
          chain_hash |-> Str(chainHash)])

\* the link of buildHashChain with item_id and content_type in each other's place
BuildLink_Swapped(items, seq, chain, version) ==
  LET itemContentHash == Str(computeContentHash(items[seq + 1].content))
      previousHash == IF seq = 0 THEN Str(GENESIS_HASH) ELSE Get(chain[seq], "chain_hash")
  IN Rec([sequence |-> Num(seq),
          item_id |-> items[seq + 1].contentType,
          content_type |-> items[seq + 1].contentId,
          content_hash |-> itemContentHash,
          previous_hash |-> previousHash,
          chain_hash |-> Str(chainHashV020(Num(seq), items[seq + 1].contentId,
                                           items[seq + 1].contentType, itemContentHash,
                                           previousHash))])

\* one pass of the loop of buildHashChain: the link pushed for items[seq],
\* chain holding the links 0..seq-1 (sequences are 1-based here, seq is 0-based)
BuildLink(items, seq, chain, version) ==
  LET itemContentHash == Str(computeContentHash(items[seq + 1].content))
      previousHash == IF seq = 0 THEN Str(GENESIS_HASH) ELSE Get(chain[seq], "chain_hash")
      chainHash ==
        IF version = "legacy"
        THEN chainHashLegacy(Num(seq), itemContentHash, previousHash)
        ELSE chainHashV020(Num(seq), items[seq + 1].contentId, items[seq + 1].contentType,
                           itemContentHash, previousHash)
  IN Rec([sequence |-> Num(seq),
          item_id |-> items[seq + 1].contentId,
          content_type |-> items[seq + 1].contentType,
          content_hash |-> itemContentHash,
          previous_hash |-> previousHash,
          chain_hash |-> Str(chainHash)])

RECURSIVE BuildChain(_, _, _)
BuildChain(items, n, version) ==
  IF n = 0 THEN <<>>
  ELSE LET chain == BuildChain(items, n - 1, version)
       IN Append(chain, BuildLink(items, n - 1, chain, version))

\* the guard of buildHashChain one item early
ExceedsLimit_OffByOne(items) == Len(items) >= MAX_CHAIN_ITEMS

\* the guard of buildHashChain, before its loop
ExceedsLimit(items) == Len(items) > MAX_CHAIN_ITEMS

\* buildHashChain(items, options): [threw, message, chain, hashed], hashed the
\* number of item contents handed to computeContentHash
buildHashChain(items, options) ==
  IF ExceedsLimit(items)
  THEN [threw |-> TRUE, message |-> "exceeds limit", chain |-> <<>>, hashed |-> 0]
  ELSE [threw |-> FALSE, message |-> "",
        chain |-> BuildChain(items, Len(items), resolveProofVersion(options)),
        hashed |-> Len(items)]

RECURSIVE ConcatChainHashes(_)
ConcatChainHashes(chain) ==
  IF chain = <<>> THEN <<>>
  ELSE Get(Head(chain), "chain_hash").v \o ConcatChainHashes(Tail(chain))

\* one running digest fed every chain_hash in order
computeRootHash(chain) == sha256(ConcatChainHashes(chain))

\* the checks of the map callback, content_type first
MissingField_TypeFirst(item) ==
  IF ~Truthy(Get(item, "content_type")) THEN "content_type"
  ELSE IF ~Truthy(Get(item, "item_id")) THEN "item_id"
  ELSE "none"

\* the map callback of sealBundle: which check of item idx throws, if any
MissingField(item) ==
  IF ~Truthy(Get(item, "item_id")) THEN "item_id"
  ELSE IF ~Truthy(Get(item, "content_type")) THEN "content_type"
  ELSE "none"

ContentOrEmpty(item) ==
  IF IsNullish(Get(item, "content")) THEN Obj(<<>>) ELSE Get(item, "content")

\* sealBundle(bundle, options): [threw, message, index, field, items, immutabilityProof]
sealBundle(bundle, options) ==
  LET in == Get(bundle, "items")
      Failed(msg, idx, field) ==
        [threw |-> TRUE, message |-> msg, index |-> idx, field |-> field,
         items |-> <<>>, immutabilityProof |-> Undefined]
  IN IF ~Truthy(in) \/ Len(in.v) = 0
     THEN Failed("items must be a non-empty array", -1, "items")
     ELSE
       LET bad == {i \in 1..Len(in.v) : MissingField(in.v[i]) # "none"}
       IN IF bad # {}
          THEN LET first == CHOOSE i \in bad : \A j \in bad : i <= j
               IN Failed("missing", first - 1, MissingField(in.v[first]))
          ELSE
            LET chainInputs == [i \in 1..Len(in.v) |->
                                  [content |-> ContentOrEmpty(in.v[i]),
                                   contentType |-> Get(in.v[i], "content_type"),
                                   contentId |-> Get(in.v[i], "item_id")]]
                built == buildHashChain(chainInputs, options)
            IN IF built.threw
               THEN Failed(built.message, -1, "items")
               ELSE
                 LET chain == built.chain
                     rootHash == computeRootHash(chain)
                     sealedItems == [i \in 1..Len(in.v) |->
                        Rec([item_id |-> Get(in.v[i], "item_id"),
                             content_type |-> Get(in.v[i], "content_type"),
                             content |-> ContentOrEmpty(in.v[i]),
                             content_hash |-> Get(chain[i], "content_hash"),
                             sequence |-> Num(i - 1)])]
                 IN [threw |-> FALSE, message |-> "", index |-> -1, field |-> "",
                     items |-> sealedItems,
                     immutabilityProof |->
                       Rec([hash_chain |-> Arr(chain), root_hash |-> Str(rootHash)])]

(***************************************************************************)
(* errors.ts                                                               *)
(***************************************************************************)
\* the members of enum ErrorCode
ErrorCodes ==
  {"HASH_CHAIN_BROKEN", "ROOT_HASH_MISMATCH", "CONTENT_HASH_MISMATCH", "SIGNATURE_INVALID",
   "SEQUENCE_GAP", "MISSING_REQUIRED_FIELD", "INPUT_VALIDATION_FAILED", "LENGTH_MISMATCH"}

\* ErrorCode.<name>: the member's value, undefined for a name the enum lacks
ErrorCode(name) == IF name \in ErrorCodes THEN name ELSE "undefined"

\* a VerificationError: its code, the statement that pushed it (site), and the
\* index and field of its details (-1 and "" when it has none)
Err(code, site, seq, field) == [code |-> code, site |-> site, seq |-> seq, field |-> field]

\* what a verification function does: it returns {valid, errors} or a TypeError escapes it
Returned(valid, errors) == [threw |-> FALSE, valid |-> valid, errors |-> errors]
Thrown == [threw |-> TRUE, valid |-> FALSE, errors |-> <<>>]

\* the errors pushed by the passes of a loop, passes[i] = [threw, errors]
LoopThrew(passes) == \E i \in 1..Len(passes) : passes[i].threw
\* the errors of the passes of a loop, the last pass first
LoopErrors_Reversed(passes) ==
  Flatten([i \in 1..Len(passes) |-> passes[Len(passes) + 1 - i].errors])

LoopErrors(passes) == Flatten([i \in 1..Len(passes) |-> passes[i].errors])

(***************************************************************************)
(* verify.ts                                                               *)
(***************************************************************************)
\* Buffer.from(x, "utf-8") throws a TypeError unless x is a string
safeEqualThrows(left, right) == ~IsString(left) \/ ~IsString(right)

\* safeEqual without its timingSafeEqual: the lengths alone
safeEqual_LengthOnly(left, right) == Len(Utf8(left.v)) = Len(Utf8(right.v))

\* equal lengths and equal bytes of the two UTF-8 encodings
safeEqual(left, right) ==
  /\ Len(Utf8(left.v)) = Len(Utf8(right.v))
  /\ Utf8(left.v) = Utf8(right.v)

\* verify.ts has its own sha256, chainHashV020 and chainHashLegacy
sha256_verify(data) == <<"sha256:">> \o HexDigest(Utf8(data))

contentHash(content) == sha256_verify(canonicalJson(content))

\* chainHashV020 with item id and content type in each other's place
chainHashV020_verify_Swapped(sequence, itemId, contentType, contentHash_, previousHash) ==
  sha256_verify(TemplateString(sequence) \o <<"|">> \o TemplateString(contentType) \o <<"|">>
                \o TemplateString(itemId) \o <<"|">> \o TemplateString(contentHash_)
                \o <<"|">> \o TemplateString(previousHash))

chainHashV020_verify(sequence, itemId, contentType, contentHash_, previousHash) ==
  sha256_verify(TemplateString(sequence) \o <<"|">> \o TemplateString(itemId) \o <<"|">>
                \o TemplateString(contentType) \o <<"|">> \o TemplateString(contentHash_)
                \o <<"|">> \o TemplateString(previousHash))

chainHashLegacy_verify(sequence, contentHash_, previousHash) ==
  sha256_verify(TemplateString(sequence) \o <<"|">> \o TemplateString(contentHash_)
                \o <<"|">> \o TemplateString(previousHash))

\* the running digest of verifyRootHash over every link's chain_hash
RootOfChain(chain) == sha256_verify(ConcatChainHashes(chain))

Includes(list, x) == \E i \in 1..Len(list) : list[i] = x

\* acceptProofVersions with "legacy" accepted when the caller names no version
resolveAcceptedProofVersions_LegacyDefault(options) ==
  IF "acceptProofVersions" \notin DOMAIN options \/ Len(options.acceptProofVersions) = 0
  THEN <<"v0.2.0", "legacy">>
  ELSE options.acceptProofVersions

\* options?.acceptProofVersions, ["v0.2.0"] when absent or empty
resolveAcceptedProofVersions(options) ==
  IF "acceptProofVersions" \notin DOMAIN options \/ Len(options.acceptProofVersions) = 0
  THEN <<"v0.2.0">>
  ELSE options.acceptProofVersions

\* whether resolveAcceptedProofVersions calls console.warn
WarnsLegacy(options) ==
  /\ "acceptProofVersions" \in DOMAIN options
  /\ Includes(options.acceptProofVersions, "legacy")

\* one pass of the loop of verifyHashChain, seq 0-based
VerifyLink(chain, seq, acceptedVersions) ==
  LET link == chain[seq + 1]
      allowV020 == Includes(acceptedVersions, "v0.2.0")
      allowLegacy == Includes(acceptedVersions, "legacy")
      hasV020Fields == IsString(Get(link, "item_id")) /\ IsString(Get(link, "content_type"))
      previous_hash == Get(link, "previous_hash")
      chain_hash == Get(link, "chain_hash")
      expectedPrev == IF seq = 0 THEN Str(GENESIS_HASH) ELSE Get(chain[seq], "chain_hash")
      tryV020 == allowV020 /\ hasV020Fields
      expectedV020 == Str(chainHashV020_verify(Get(link, "sequence"), Get(link, "item_id"),
                                               Get(link, "content_type"),
                                               Get(link, "content_hash"), previous_hash))
      validV020 == tryV020 /\ safeEqual(chain_hash, expectedV020)
      tryLegacy == ~validV020 /\ allowLegacy
      expectedLegacy == Str(chainHashLegacy_verify(Get(link, "sequence"),
                                                   Get(link, "content_hash"), previous_hash))
      chainValid == validV020 \/ (tryLegacy /\ safeEqual(chain_hash, expectedLegacy))
  IN IF IsNullish(link) \/ (seq > 0 /\ IsNullish(chain[seq]))
        \/ safeEqualThrows(previous_hash, expectedPrev)
        \/ ((tryV020 \/ allowLegacy) /\ ~IsString(chain_hash))
     THEN [threw |-> TRUE, errors |-> <<>>]
     ELSE [threw |-> FALSE, errors |->
       (IF ~StrictEq(Get(link, "sequence"), Num(seq))
        THEN <<Err(ErrorCode("SEQUENCE_GAP"), "link.sequence", seq, "sequence")>> ELSE <<>>)
       \o (IF ~safeEqual(previous_hash, expectedPrev)
           THEN <<Err(ErrorCode("HASH_CHAIN_BROKEN"), "link.previous_hash", seq, "previous_hash")>>
           ELSE <<>>)
       \o (IF allowV020 /\ ~hasV020Fields /\ ~allowLegacy
           THEN <<Err(ErrorCode("HASH_CHAIN_BROKEN"), "link.v020_fields", seq, "item_id")>>
           ELSE <<>>)
       \o (IF ~chainValid
           THEN <<Err(ErrorCode("HASH_CHAIN_BROKEN"), "link.chain_hash", seq, "chain_hash")>>
           ELSE <<>>)]

verifyHashChain(chain, options) ==
  LET acceptedVersions == resolveAcceptedProofVersions(options)
  IN IF ~IsArray(chain) \/ Len(chain.v) = 0
     THEN Returned(FALSE, <<Err(ErrorCode("INPUT_VALIDATION_FAILED"), "chain.input", -1, "hash_chain")>>)
     ELSE LET passes == [i \in 1..Len(chain.v) |-> VerifyLink(chain.v, i - 1, acceptedVersions)]
          IN IF LoopThrew(passes) THEN Thrown
             ELSE Returned(LoopErrors(passes) = <<>>, LoopErrors(passes))

verifyRootHash(proof) ==
  IF ~Truthy(proof) \/ ~IsArray(Get(proof, "hash_chain")) \/ Len(Get(proof, "hash_chain").v) = 0
  THEN Returned(FALSE, <<Err(ErrorCode("INPUT_VALIDATION_FAILED"), "root.input", -1, "hash_chain")>>)
  ELSE
    LET chain == Get(proof, "hash_chain").v
    IN IF \/ \E i \in 1..Len(chain) : IsNullish(chain[i]) \/ ~IsString(Get(chain[i], "chain_hash"))
          \/ safeEqualThrows(Get(proof, "root_hash"), Str(<<>>))
       THEN Thrown
       ELSE LET expected == Str(RootOfChain(chain))
                errors == IF ~safeEqual(Get(proof, "root_hash"), expected)
                          THEN <<Err(ErrorCode("ROOT_HASH_MISMATCH"), "root.root_hash", -1, "root_hash")>>
                          ELSE <<>>
            IN Returned(errors = <<>>, errors)

\* one pass of the loop of verifyContentHashes
VerifyItemContent(item, idx) ==
  IF IsNullish(item) \/ safeEqualThrows(Get(item, "content_hash"), Str(<<>>))
  THEN [threw |-> TRUE, errors |-> <<>>]
  ELSE [threw |-> FALSE, errors |->
         IF ~safeEqual(Get(item, "content_hash"), Str(contentHash(Get(item, "content"))))
         THEN <<Err(ErrorCode("CONTENT_HASH_MISMATCH"), "item.content", idx, "content")>>
         ELSE <<>>]

\* verifyContentHashes with an empty list let through to its loop
verifyContentHashes_EmptyValid(items) ==
  IF ~IsArray(items)
  THEN Returned(FALSE, <<Err(ErrorCode("INPUT_VALIDATION_FAILED"), "items.input", -1, "items")>>)
  ELSE LET passes == [i \in 1..Len(items.v) |-> VerifyItemContent(items.v[i], i - 1)]
       IN IF LoopThrew(passes) THEN Thrown
          ELSE Returned(LoopErrors(passes) = <<>>, LoopErrors(passes))

verifyContentHashes(items) ==
  IF ~IsArray(items) \/ Len(items.v) = 0
  THEN Returned(FALSE, <<Err(ErrorCode("INPUT_VALIDATION_FAILED"), "items.input", -1, "items")>>)
  ELSE LET passes == [i \in 1..Len(items.v) |-> VerifyItemContent(items.v[i], i - 1)]
       IN IF LoopThrew(passes) THEN Thrown
          ELSE Returned(LoopErrors(passes) = <<>>, LoopErrors(passes))

\* x.length
Length(x) == IF x.t \in {"array", "string"} THEN Num(Len(x.v)) ELSE Undefined

canonicalBytes(obj) == Utf8(canonicalJson(obj))

\* createHmac("sha256", secret).update(content).digest("base64"): one text
\* per secret and content
Hmac(secret, content) == <<"hmac:">> \o [i \in 1..Len(secret) |-> "#" \o Utf8(secret)[i]]
                         \o <<":">> \o HexDigest(content)

\* the signature that the private key of a key pair makes of content, in base64
SignatureOf(pair, content) == <<"sig:" \o pair, ":">> \o HexDigest(content)

\* Buffer.from(text, "base64") skips the characters that are not base64
NotBase64 == {" ", "U+D800", "U+DC00", "U+FFFD"}
Base64Decode(text) == SelectSeq(text, LAMBDA c : c \notin NotBase64)

DefaultKeyId == <<"d", "e", "f", "a", "u", "l", "t">>

\* a key of options.publicKeys is [format, pair]: format "pem" (-----BEGIN),
\* "raw32" (base64 of 32 bytes) or "other"; the keys are Ed25519 keys.
\* The result is the key object's pair, "" for null.
resolvePublicKey(signature, options) ==
  LET keyId == IF Truthy(Get(signature, "public_key_id"))
               THEN Get(signature, "public_key_id").v ELSE DefaultKeyId
      keys == IF "publicKeys" \in DOMAIN options THEN options.publicKeys ELSE <<>>
      key == IF keyId \in DOMAIN keys THEN keys[keyId]
             ELSE IF DefaultKeyId \in DOMAIN keys THEN keys[DefaultKeyId]
             ELSE [format |-> "other", pair |-> ""]
  IN IF key.format \in {"pem", "raw32"} THEN key.pair ELSE ""

\* one pass of the loop of verifySignatures
VerifySignature(sig, idx, content, options) ==
  LET signatureValue == Get(sig, "signature_value")
      algo == Get(sig, "algorithm")
      hmac == StrictEq(algo, Str(<<"hmac-sha256">>))
      secret == IF "hmacSecret" \in DOMAIN options THEN options.hmacSecret ELSE <<>>
      key == resolvePublicKey(sig, options)
      ok == /\ StrictEq(algo, Str(<<"ed25519">>))
            /\ Base64Decode(signatureValue.v) = SignatureOf(key, content)
      E(site) == <<Err(ErrorCode("SIGNATURE_INVALID"), site, idx, "signature_value")>>
  IN IF IsNullish(sig) THEN [threw |-> TRUE, errors |-> <<>>]
     ELSE IF ~Truthy(signatureValue) THEN [threw |-> FALSE, errors |-> E("sig.missing_value")]
     ELSE IF hmac /\ secret = <<>> THEN [threw |-> FALSE, errors |-> E("sig.no_secret")]
     ELSE IF hmac
       THEN IF ~IsString(signatureValue) THEN [threw |-> TRUE, errors |-> <<>>]
            ELSE [threw |-> FALSE, errors |->
                   IF Utf8(Hmac(secret, content)) # Utf8(signatureValue.v)
                   THEN E("sig.hmac") ELSE <<>>]
     ELSE IF key = "" THEN [threw |-> FALSE, errors |-> E("sig.no_key")]
     ELSE IF ~IsString(signatureValue) THEN [threw |-> TRUE, errors |-> <<>>]
     ELSE [threw |-> FALSE, errors |-> IF ~ok THEN E("sig.failed") ELSE <<>>]

\* bundle.signatures ?? []; a bundle without signatures is valid
verifySignatures(bundle, options) ==
  LET signatures == IF IsNullish(Get(bundle, "signatures")) THEN Arr(<<>>)
                    ELSE Get(bundle, "signatures")
      bundleCopy == Rec([f \in DOMAIN bundle.r \cup {"signatures"} |->
                          IF f = "signatures" THEN Undefined ELSE bundle.r[f]])
      content == canonicalBytes(bundleCopy)
  IN IF StrictEq(Length(signatures), Num(0)) THEN Returned(TRUE, <<>>)
     ELSE IF ~IsArray(signatures) THEN Thrown
     ELSE LET passes == [i \in 1..Len(signatures.v) |->
                           VerifySignature(signatures.v[i], i - 1, content, options)]
          IN IF LoopThrew(passes) THEN Thrown
             ELSE Returned(LoopErrors(passes) = <<>>, LoopErrors(passes))

requiredFields == <<"bundle_id", "version", "created_at", "items", "immutability_proof">>
SUPPORTED_VERSIONS == <<Str(<<"0", ".", "2", ".", "0">>)>>

\* one pass of the cross-check loop of verifyBundle
CrossCheck(item, link, seq) ==
  LET checkId == ~StrictEq(Get(link, "item_id"), Undefined)
      checkType == ~StrictEq(Get(link, "content_type"), Undefined)
  IN IF IsNullish(item) \/ IsNullish(link)
        \/ safeEqualThrows(Get(item, "content_hash"), Get(link, "content_hash"))
        \/ (checkId /\ safeEqualThrows(Get(item, "item_id"), Get(link, "item_id")))
        \/ (checkType /\ safeEqualThrows(Get(item, "content_type"), Get(link, "content_type")))
     THEN [threw |-> TRUE, errors |-> <<>>]
     ELSE [threw |-> FALSE, errors |->
       (IF ~StrictEq(Get(item, "sequence"), Num(seq))
        THEN <<Err(ErrorCode("SEQUENCE_GAP"), "cross.sequence", seq, "sequence")>> ELSE <<>>)
       \o (IF ~safeEqual(Get(item, "content_hash"), Get(link, "content_hash"))
           THEN <<Err(ErrorCode("CONTENT_HASH_MISMATCH"), "cross.content_hash", seq, "content_hash")>>
           ELSE <<>>)
       \o (IF checkId /\ ~safeEqual(Get(item, "item_id"), Get(link, "item_id"))
           THEN <<Err(ErrorCode("CONTENT_HASH_MISMATCH"), "cross.item_id", seq, "item_id")>>
           ELSE <<>>)
       \o (IF checkType /\ ~safeEqual(Get(item, "content_type"), Get(link, "content_type"))
           THEN <<Err(ErrorCode("CONTENT_HASH_MISMATCH"), "cross.content_type", seq, "content_type")>>
           ELSE <<>>)]

\* the errors of verifyBundle before its early return
FieldErrors(bundle) ==
  LET missing == SelectSeq(requiredFields, LAMBDA f : IsNullish(Get(bundle, f)))
      version == Get(bundle, "version")
  IN [i \in 1..Len(missing) |->
        Err(ErrorCode("MISSING_REQUIRED_FIELD"), "bundle.required", -1, missing[i])]
     \o (IF Truthy(version) /\ ~\E i \in 1..Len(SUPPORTED_VERSIONS) :
                                   StrictEq(SUPPORTED_VERSIONS[i], version)
         THEN <<Err(ErrorCode("UNSUPPORTED_VERSION"), "bundle.version", -1, "version")>>
         ELSE <<>>)

Min(a, b) == IF a < b THEN a ELSE b

verifyBundle(bundle, options) ==
  LET items == Get(bundle, "items")
      proof == Get(bundle, "immutability_proof")
      chain == Get(proof, "hash_chain")
      contentResult == verifyContentHashes(items)
      chainResult == verifyHashChain(chain, options)
      rootResult == verifyRootHash(proof)
      lengthErrors ==
        IF ~StrictEq(Length(items), Length(chain))
        THEN <<Err(ErrorCode("LENGTH_MISMATCH"), "bundle.length", -1, "items")>> ELSE <<>>
      n == IF IsArray(items) /\ IsArray(chain) THEN Min(Len(items.v), Len(chain.v)) ELSE 0
      passes == [i \in 1..n |-> CrossCheck(items.v[i], chain.v[i], i - 1)]
      sigResult == verifySignatures(bundle, options)
      errors == FieldErrors(bundle) \o contentResult.errors \o chainResult.errors
                \o rootResult.errors \o lengthErrors \o LoopErrors(passes) \o sigResult.errors
  IN IF ~Truthy(items) \/ ~Truthy(proof)
     THEN Returned(FALSE, FieldErrors(bundle))
     ELSE IF \/ contentResult.threw \/ chainResult.threw \/ rootResult.threw
             \/ IsNullish(chain)
             \/ LoopThrew(passes) \/ sigResult.threw
          THEN Thrown
          ELSE Returned(errors = <<>>, errors)

\* whether verifyBundle writes the deprecation warning: verifyHashChain is
\* reached, after the early return and after verifyContentHashes
verifyBundleWarns(bundle, options) ==
  /\ Truthy(Get(bundle, "items")) /\ Truthy(Get(bundle, "immutability_proof"))
  /\ ~verifyContentHashes(Get(bundle, "items")).threw
  /\ WarnsLegacy(options)

(***************************************************************************)
(* The inputs                                                              *)
(***************************************************************************)
MaxItems == 2

Key(c) == <<c>>
ContentA1 == Obj(<<[k |-> Key("a"), v |-> Num(1)]>>)
ContentA2 == Obj(<<[k |-> Key("a"), v |-> Num(2)]>>)
ContentNull == Obj(<<[k |-> Key("a"), v |-> Null]>>)
ContentNaN == Obj(<<[k |-> Key("a"), v |-> NaN]>>)
ContentA1Undef == Obj(<<[k |-> Key("a"), v |-> Num(1)], [k |-> Key("b"), v |-> Undefined]>>)

\* the items a caller hands to sealBundle: Partial<EvidenceItem>
SealItems ==
  { Rec([item_id |-> Str(<<"a">>), content_type |-> Str(<<"t">>), content |-> ContentA1]),
    Rec([item_id |-> Str(<<"U+FFFD">>), content_type |-> Str(<<"t">>), content |-> ContentNull]),
    Rec([content_type |-> Str(<<"t">>), content |-> ContentA1]),
    Rec([item_id |-> Str(<<"a">>), content_type |-> Str(<<>>)]),
    Rec([item_id |-> Str(<<>>), content |-> ContentA1]) }

RECURSIVE ListsOf(_, _)
ListsOf(S, n) ==
  IF n = 0 THEN {<<>>}
  ELSE LET shorter == ListsOf(S, n - 1)
       IN shorter \cup {Append(l, x) : l \in {m \in shorter : Len(m) = n - 1}, x \in S}

\* a list of one item more than buildHashChain takes
Oversized ==
  [i \in 1..(MAX_CHAIN_ITEMS + 1) |->
     Rec([item_id |-> Str(<<"a">>), content_type |-> Str(<<"t">>), content |-> ContentA1])]

\* an item whose content_type holds the delimiter of the chain-hash input,
\* and two items that differ in a lone surrogate of their item_id alone
DelimiterItem ==
  Rec([item_id |-> Str(<<"a">>), content_type |-> Str(<<"t", "|", "u">>), content |-> ContentA1])
SurrogateItems ==
  << Rec([item_id |-> Str(<<"U+FFFD">>), content_type |-> Str(<<"t">>), content |-> ContentNull]),
     Rec([item_id |-> Str(<<"U+D800">>), content_type |-> Str(<<"t">>), content |-> ContentNull]) >>

SealInputs ==
  {Rec([items |-> Arr(l)]) :
     l \in ListsOf(SealItems, MaxItems) \cup {Oversized, <<DelimiterItem>>, SurrogateItems}}
  \cup {Rec(<<>>)}
SealOptionValues == {<<>>, [proofVersion |-> "legacy"]}

\* the options a caller hands to verifyBundle
Secret == <<"k">>
VerifyOptionValues ==
  {<<>>, [acceptProofVersions |-> <<>>], [acceptProofVersions |-> <<"v0.2.0">>],
   [acceptProofVersions |-> <<"v0.2.0", "legacy">>], [acceptProofVersions |-> <<"legacy">>],
   [hmacSecret |-> Secret]}
IsDefaultOptions(o) == resolveAcceptedProofVersions(o) = <<"v0.2.0">>

ZeroHash == <<"sha256:", "%0">>
StringValues == {Str(<<"b">>), Str(<<"U+D800">>), Str(ZeroHash)}
NonStringValues == {Undefined}
SequenceValues == {Num(1), Num(5), Undefined}
ContentValues == {ContentA2, ContentNull, ContentNaN, ContentA1Undef}
VersionValues ==
  {Undefined, Null, Str(<<>>), Str(<<"0", ".", "2", ".", "1">>), Str(<<"1", ".", "0", ".", "0">>)}

\* the signatures a signer attaches to bundle b: an HMAC of b under Secret,
\* an Ed25519 signature of no known key, an HMAC entry whose value is a number
Signature(algorithm, value) ==
  Rec([signature_id |-> Str(<<"s">>), algorithm |-> Str(<<algorithm>>), signature_value |-> value])
\* a second signature, of another signature_id
Signature2(algorithm, value) ==
  Rec([signature_id |-> Str(<<"r">>), algorithm |-> Str(<<algorithm>>), signature_value |-> value])
\* the HMAC signature of b under Secret, and the Ed25519 signature of b by key pair "p"
HmacSignature(b) == Signature("hmac-sha256", Str(Hmac(Secret, canonicalBytes(b))))
Ed25519Signature(b) == Signature2("ed25519", Str(SignatureOf("p", canonicalBytes(b))))
SignatureValues(b) ==
  { Arr(<<HmacSignature(b)>>),
    Arr(<<Signature("ed25519", Str(<<"b">>))>>),
    Arr(<<Signature("hmac-sha256", Num(5))>>),
    Arr(<<HmacSignature(b), Ed25519Signature(b)>>),
    Arr(<<Ed25519Signature(b), HmacSignature(b)>>),
    Arr(<<HmacSignature(b), Signature2("hmac-sha256", Num(5))>>),
    Arr(<<Signature("rsa-pss", Str(<<"b">>)), Signature2("ed25519", Undefined)>>) }

\* the options a caller hands to verifySignatures: no key material, the HMAC
\* secret, the raw Ed25519 public key of pair "p" as the default key
SignatureOptionValues ==
  {<<>>, [hmacSecret |-> Secret],
   [hmacSecret |-> Secret, publicKeys |-> [k \in {DefaultKeyId} |-> [format |-> "raw32", pair |-> "p"]]]}

ItemFields == {"item_id", "content_type", "content", "content_hash", "sequence"}
LinkFields == {"sequence", "item_id", "content_type", "content_hash", "previous_hash", "chain_hash"}

FieldValues(f) ==
  CASE f = "sequence" -> SequenceValues
    [] f = "content" -> ContentValues
    [] f = "version" -> VersionValues
    [] f \in {"bundle_id", "created_at"} -> {Undefined, Null}
    [] f = "items" -> {Undefined, Null, Str(<<>>), Arr(<<>>)}
    [] f = "immutability_proof" -> {Undefined, Null, Str(<<>>)}
    [] f = "hash_chain" -> {Undefined, Arr(<<>>)}
    [] OTHER -> StringValues \cup NonStringValues

(***************************************************************************)
(* The state: one seal, one change to the sealed bundle, one verification  *)
(***************************************************************************)
VARIABLES
  pc,          \* "start", "sealed", "sealFailed", "assembled", "tampered", "verified", "called"
  sealInput,   \* the bundle handed to sealBundle
  sealOptions, \* the options handed to sealBundle
  sealed,      \* what sealBundle did
  bundle,      \* the EvidenceBundle handed to verifyBundle
  tamper,      \* the field of the bundle changed after sealing
  removed,     \* the item or link taken out of the bundle after sealing
  options,     \* the options handed to verifyBundle
  result,      \* what verifyBundle did
  warned,      \* whether the verification wrote its deprecation warning (console.warn)
  call         \* a direct call of computeRootHash or buildHashChain, and what it did

vars == <<pc, sealInput, sealOptions, sealed, bundle, tamper, removed, options, result,
          warned, call>>

NoTamper == [kind |-> "none", seq |-> -1, field |-> "", value |-> Undefined]
NoRemoval == [kind |-> "none", seq |-> -1]
NoResult == [threw |-> FALSE, valid |-> FALSE, errors |-> <<>>]
NoCall == [fn |-> "none", n |-> -1, threw |-> FALSE, value |-> <<>>, links |-> -1, hashed |-> -1]

\* the caller's assembly of the bundle (README, "Seal a bundle")
Assembled(s) ==
  Rec([bundle_id |-> Str(<<"b">>),
       version |-> Str(<<"0", ".", "2", ".", "0">>),
       created_at |-> Str(<<"c">>),
       items |-> Arr(s.items),
       immutability_proof |-> s.immutabilityProof])

Items(b) == Get(b, "items").v
Proof(b) == Get(b, "immutability_proof")
Chain(b) == Get(Proof(b), "hash_chain").v

WithField(o, f, v) == Rec([g \in DOMAIN o.r \cup {f} |-> IF g = f THEN v ELSE o.r[g]])
WithItems(b, its) == WithField(b, "items", Arr(its))
WithProofField(b, f, v) == WithField(b, "immutability_proof", WithField(Proof(b), f, v))
WithChain(b, ch) == WithProofField(b, "hash_chain", Arr(ch))
Without(list, i) == SubSeq(list, 1, i - 1) \o SubSeq(list, i + 1, Len(list))

\* the structured values handed to canonicalJson and computeContentHash:
\* objects of the same members in several insertion orders, nested in
\* objects and arrays, with an undefined member, with keys outside the
\* Basic Multilingual Plane
Member2(k, v) == [k |-> Key(k), v |-> v]
CanonValues ==
  { Obj(<<Member2("z", Num(1)), Member2("a", Num(2)), Member2("m", Num(3))>>),
    Obj(<<Member2("a", Num(2)), Member2("m", Num(3)), Member2("z", Num(1))>>),
    Obj(<<Member2("m", Num(3)), Member2("z", Num(1)), Member2("a", Num(2))>>),
    Obj(<<Member2("a", Num(3)), Member2("m", Num(2)), Member2("z", Num(1))>>),
    Obj(<<Member2("b", Obj(<<Member2("z", Num(1)), Member2("a", Num(2))>>)),
          Member2("a", Arr(<<Obj(<<Member2("y", Num(1)), Member2("x", Num(2))>>)>>))>>),
    Obj(<<Member2("a", Arr(<<Obj(<<Member2("x", Num(2)), Member2("y", Num(1))>>)>>)),
          Member2("b", Obj(<<Member2("a", Num(2)), Member2("z", Num(1))>>))>>),
    Obj(<<Member2("b", Undefined), Member2("a", Num(1))>>),
    Obj(<<Member2("a", Num(1)), Member2("b", Undefined)>>),
    Obj(<<Member2("U+FF5E", Num(1)), Member2("U+1F600", Num(2))>>),
    Obj(<<Member2("U+1F600", Num(2)), Member2("U+FF5E", Num(1))>>),
    Obj(<<>>) }

\* the identities an item and its link are changed to together
IdentityValues ==
  { [item_id |-> Str(id), content_type |-> Str(type)] :
      id \in {<<"a">>, <<"a", "|", "t">>, <<"b">>}, type \in {<<"t">>, <<"u">>} }

\* the rearrangements of n positions, none of them the identity
Rearrangements(n) ==
  {p \in [1..n -> 1..n] : (\A i, j \in 1..n : p[i] = p[j] => i = j) /\ (\E i \in 1..n : p[i] # i)}
Permuted(list, p, renumber) ==
  [i \in 1..Len(list) |->
     IF renumber THEN WithField(list[p[i]], "sequence", Num(i - 1)) ELSE list[p[i]]]

\* the values a signed bundle's other top-level fields are changed to
SignedFields == {"bundle_id", "version", "created_at", "metadata", "items", "immutability_proof"}
SignedFieldValues(b, f) ==
  CASE f = "bundle_id" -> {Str(<<"U+D800">>)}
    [] f = "version" -> {Str(<<"0", ".", "2", ".", "1">>)}
    [] f = "created_at" -> {Str(<<"b">>)}
    [] f = "metadata" -> {ContentA1}
    [] f = "items" ->
         {Arr([Items(b) EXCEPT ![1] = WithField(@, "content", c)]) : c \in {ContentA2, ContentNaN}}
    [] f = "immutability_proof" -> {WithField(Proof(b), "root_hash", Str(ZeroHash))}

Init ==
  /\ pc = "start"
  /\ sealInput = Undefined
  /\ sealOptions = <<>>
  /\ sealed = [threw |-> TRUE, message |-> "", index |-> -1, field |-> "",
               items |-> <<>>, immutabilityProof |-> Undefined]
  /\ bundle = Undefined
  /\ tamper = NoTamper
  /\ removed = NoRemoval
  /\ options = <<>>
  /\ result = NoResult
  /\ warned = FALSE
  /\ call = NoCall

Seal ==
  /\ pc = "start"
  /\ \E in \in SealInputs, o \in SealOptionValues :
       /\ sealInput' = in
       /\ sealOptions' = o
       /\ sealed' = sealBundle(in, o)
       /\ pc' = IF sealBundle(in, o).threw THEN "sealFailed" ELSE "sealed"
  /\ UNCHANGED <<bundle, tamper, removed, options, result, warned, call>>

Assemble ==
  /\ pc = "sealed"
  /\ bundle' = Assembled(sealed)
  /\ pc' = "assembled"
  /\ UNCHANGED <<sealInput, sealOptions, sealed, tamper, removed, options, result, warned, call>>

Tampered(kind, seq, field, value, b) ==
  /\ pc = "assembled"
  /\ b # bundle
  /\ bundle' = b
  /\ tamper' = [kind |-> kind, seq |-> seq, field |-> field, value |-> value]
  /\ pc' = "tampered"
  /\ UNCHANGED <<sealInput, sealOptions, sealed, removed, options, result, warned, call>>

\* an item or a link is taken out, of the sealed bundle or of one with a field
\* of an item or of a link changed
Removal(kind, seq, b) ==
  /\ pc \in {"assembled", "tampered"}
  /\ removed = NoRemoval
  /\ tamper.kind \in {"none", "item", "link"}
  /\ bundle' = b
  /\ removed' = [kind |-> kind, seq |-> seq]
  /\ pc' = "tampered"
  /\ UNCHANGED <<sealInput, sealOptions, sealed, tamper, options, result, warned, call>>

TamperItem ==
  \E i \in 1..MaxItems, f \in ItemFields :
    /\ pc = "assembled" /\ i <= Len(Items(bundle))
    /\ \E v \in FieldValues(f) :
         Tampered("item", i - 1, f, v,
                  WithItems(bundle, [Items(bundle) EXCEPT ![i] = WithField(@, f, v)]))

TamperLink ==
  \E i \in 1..MaxItems, f \in LinkFields :
    /\ pc = "assembled" /\ i <= Len(Chain(bundle))
    /\ \E v \in FieldValues(f) :
         Tampered("link", i - 1, f, v,
                  WithChain(bundle, [Chain(bundle) EXCEPT ![i] = WithField(@, f, v)]))

TamperRoot ==
  \E v \in FieldValues("root_hash") :
    /\ pc = "assembled"
    /\ Tampered("root", -1, "root_hash", v, WithProofField(bundle, "root_hash", v))

HasItems(b) == IsArray(Get(b, "items"))
HasChain(b) == IsArray(Get(Get(b, "immutability_proof"), "hash_chain"))

RemoveItem ==
  \E i \in 1..MaxItems :
    /\ pc \in {"assembled", "tampered"} /\ HasItems(bundle) /\ i <= Len(Items(bundle))
    /\ Removal("item", i - 1, WithItems(bundle, Without(Items(bundle), i)))

RemoveLink ==
  \E i \in 1..MaxItems :
    /\ pc \in {"assembled", "tampered"} /\ HasChain(bundle) /\ i <= Len(Chain(bundle))
    /\ Removal("link", i - 1, WithChain(bundle, Without(Chain(bundle), i)))

TamperTop ==
  \E f \in {"bundle_id", "version", "created_at", "items", "immutability_proof"} :
    \E v \in FieldValues(f) :
      /\ pc = "assembled"
      /\ Tampered("top", -1, f, v, WithField(bundle, f, v))

TamperHashChain ==
  \E v \in FieldValues("hash_chain") :
    /\ pc = "assembled"
    /\ Tampered("proof", -1, "hash_chain", v, WithProofField(bundle, "hash_chain", v))

AttachSignatures ==
  /\ pc = "assembled"
  /\ \E v \in SignatureValues(bundle) :
       Tampered("signatures", -1, "signatures", v, WithField(bundle, "signatures", v))

\* item_id and content_type of one item are changed, in the item and
\* identically in its chain link, every hash left as it is
Reidentify ==
  \E i \in 1..MaxItems, id \in IdentityValues :
    /\ pc = "assembled" /\ i <= Len(Items(bundle))
    /\ Tampered("identity", i - 1, "item_id", id.item_id,
                LET change(x) == WithField(WithField(x, "item_id", id.item_id),
                                           "content_type", id.content_type)
                IN WithChain(WithItems(bundle, [Items(bundle) EXCEPT ![i] = change(@)]),
                             [Chain(bundle) EXCEPT ![i] = change(@)]))

\* the items, the links or both are rearranged, their sequence fields
\* renumbered to the new positions or left as they are
Permute ==
  /\ pc = "assembled" /\ Len(Items(bundle)) >= 2
  /\ \E p \in Rearrangements(Len(Items(bundle))), which \in {"items", "links", "both"},
        renumber \in BOOLEAN :
       Tampered("permute", -1, which, Bool(renumber),
                LET its == IF which = "links" THEN Items(bundle)
                           ELSE Permuted(Items(bundle), p, renumber)
                    ch == IF which = "items" THEN Chain(bundle)
                          ELSE Permuted(Chain(bundle), p, renumber)
                IN WithChain(WithItems(bundle, its), ch))

\* a top-level field other than signatures is changed after the signing
ChangeSigned ==
  /\ pc = "tampered" /\ tamper.kind = "signatures" /\ removed = NoRemoval
  /\ \E f \in SignedFields :
       \E v \in SignedFieldValues(bundle, f) :
         /\ v # Get(bundle, f)
         /\ bundle' = WithField(bundle, f, v)
         /\ tamper' = [kind |-> "signed", seq |-> -1, field |-> f, value |-> v]
  /\ UNCHANGED <<pc, sealInput, sealOptions, sealed, removed, options, result, warned, call>>

\* several required fields are absent at once
DropFields ==
  /\ pc = "assembled"
  /\ \E absent \in SUBSET {requiredFields[i] : i \in 1..Len(requiredFields)},
        v \in {Undefined, Null} :
       /\ Cardinality(absent) >= 2
       /\ Tampered("drop", -1, "", v,
                   Rec([f \in DOMAIN bundle.r |-> IF f \in absent THEN v ELSE bundle.r[f]]))

\* computeRootHash(chain) called on its own: on no link, or on the links of a sealed bundle
CallComputeRootHash ==
  /\ pc = "sealed"
  /\ \E n \in 0..Len(sealed.items) :
       LET chain == SubSeq(Get(sealed.immutabilityProof, "hash_chain").v, 1, n)
       IN call' = [fn |-> "computeRootHash", n |-> n, threw |-> FALSE,
                   value |-> computeRootHash(chain), links |-> -1, hashed |-> -1]
  /\ pc' = "called"
  /\ UNCHANGED <<sealInput, sealOptions, sealed, bundle, tamper, removed, options, result, warned>>

\* the lengths of the lists handed to buildHashChain on its own; above
\* MaxItems the model runs the guard of buildHashChain and not its loop
ChainLengths == (0..MaxItems) \cup {MAX_CHAIN_ITEMS, MAX_CHAIN_ITEMS + 1}
ChainInputs(n) ==
  [i \in 1..n |-> [content |-> ContentA1, contentType |-> Str(<<"t">>), contentId |-> Str(<<"a">>)]]

CallBuildHashChain ==
  /\ pc = "start"
  /\ \E n \in ChainLengths, o \in SealOptionValues :
       /\ sealOptions' = o
       /\ call' = IF n <= MaxItems \/ ExceedsLimit(ChainInputs(n))
                  THEN LET built == buildHashChain(ChainInputs(n), o)
                       IN [fn |-> "buildHashChain", n |-> n, threw |-> built.threw,
                           value |-> built.chain, links |-> Len(built.chain),
                           hashed |-> built.hashed]
                  ELSE [fn |-> "buildHashChain", n |-> n, threw |-> FALSE,
                        value |-> <<>>, links |-> -1, hashed |-> -1]
  /\ pc' = "called"
  /\ UNCHANGED <<sealInput, sealed, bundle, tamper, removed, options, result, warned>>

\* what a caller hands to verifyContentHashes, verifyHashChain and
\* verifyRootHash on their own: no value, values that are not arrays, the
\* empty array, proofs without a hash_chain array, and what sealBundle returned
SubChecks == {"verifyContentHashes", "verifyHashChain", "verifyRootHash"}
SubCheckInputs(fn, s) ==
  IF fn = "verifyRootHash"
  THEN {Undefined, Null, Rec(<<>>), Rec([root_hash |-> Str(ZeroHash)]),
        Rec([hash_chain |-> Arr(<<>>), root_hash |-> Str(ZeroHash)]),
        Rec([hash_chain |-> Str(<<"b">>), root_hash |-> Str(ZeroHash)]),
        s.immutabilityProof}
  ELSE {Undefined, Null, Str(<<>>), Str(<<"b">>), Num(5), Rec(<<>>), Arr(<<>>)}
       \cup (IF fn = "verifyContentHashes" THEN {Arr(s.items)}
             ELSE {Get(s.immutabilityProof, "hash_chain")})

CallSubCheck ==
  /\ pc = "sealed"
  /\ \E fn \in SubChecks, o \in {<<>>, [acceptProofVersions |-> <<"legacy">>]} :
       \E x \in SubCheckInputs(fn, sealed) :
         /\ fn # "verifyHashChain" => o = <<>>
         /\ options' = o
         /\ call' = [fn |-> fn, n |-> -1, threw |-> FALSE,
                     value |-> [input |-> x,
                                result |-> CASE fn = "verifyContentHashes" -> verifyContentHashes(x)
                                             [] fn = "verifyHashChain" -> verifyHashChain(x, o)
                                             [] fn = "verifyRootHash" -> verifyRootHash(x)],
                     links |-> -1, hashed |-> -1]
  /\ pc' = "called"
  /\ UNCHANGED <<sealInput, sealOptions, sealed, bundle, tamper, removed, result, warned>>

\* verifyHashChain(chain, options) called on its own on a chain with a link
\* changed or with its links rearranged
CallVerifyHashChain ==
  /\ pc = "tampered" /\ tamper.kind \in {"link", "permute"} /\ removed = NoRemoval
  /\ \E o \in {<<>>, [acceptProofVersions |-> <<"legacy">>]} :
       /\ options' = o
       /\ call' = [fn |-> "verifyHashChain", n |-> -1, threw |-> FALSE,
                   value |-> [input |-> Get(Proof(bundle), "hash_chain"),
                              result |-> verifyHashChain(Get(Proof(bundle), "hash_chain"), o)],
                   links |-> -1, hashed |-> -1]
  /\ pc' = "called"
  /\ UNCHANGED <<sealInput, sealOptions, sealed, bundle, tamper, removed, result, warned>>

\* canonicalJson and computeContentHash called on two values (twice on one
\* value when they are the same)
CallComputeContentHash ==
  /\ pc = "start"
  /\ \E v \in CanonValues, w \in CanonValues :
       call' = [fn |-> "computeContentHash", n |-> -1, threw |-> FALSE,
                value |-> [first |-> v, second |-> w,
                           texts |-> <<canonicalJson(v), canonicalJson(w)>>,
                           hashes |-> <<computeContentHash(v), computeContentHash(w)>>],
                links |-> -1, hashed |-> -1]
  /\ pc' = "called"
  /\ UNCHANGED <<sealInput, sealOptions, sealed, bundle, tamper, removed, options, result, warned>>

\* verifySignatures(bundle, options) called on its own: on the sealed bundle,
\* on a signed one, on a signed one with another field changed
CallVerifySignatures ==
  /\ \/ pc = "assembled"
     \/ pc = "tampered" /\ tamper.kind \in {"signatures", "signed"} /\ removed = NoRemoval
  /\ \E o \in SignatureOptionValues :
       /\ options' = o
       /\ call' = [fn |-> "verifySignatures", n |-> -1,
                   threw |-> verifySignatures(bundle, o).threw,
                   value |-> verifySignatures(bundle, o), links |-> -1, hashed |-> -1]
  /\ pc' = "called"
  /\ UNCHANGED <<sealInput, sealOptions, sealed, bundle, tamper, removed, result, warned>>

Verify ==
  /\ pc \in {"assembled", "tampered"}
  /\ \E o \in VerifyOptionValues :
       /\ options' = o
       /\ result' = verifyBundle(bundle, o)
       /\ warned' = verifyBundleWarns(bundle, o)
  /\ pc' = "verified"
  /\ UNCHANGED <<sealInput, sealOptions, sealed, bundle, tamper, removed, call>>

Next ==
  \/ Seal
  \/ Assemble
  \/ TamperItem
  \/ TamperLink
  \/ TamperRoot
  \/ RemoveItem
  \/ RemoveLink
  \/ TamperTop
  \/ TamperHashChain
  \/ AttachSignatures
  \/ Reidentify
  \/ Permute
  \/ ChangeSigned
  \/ DropFields
  \/ CallComputeRootHash
  \/ CallBuildHashChain
  \/ CallComputeContentHash
  \/ CallSubCheck
  \/ CallVerifyHashChain
  \/ CallVerifySignatures
  \/ Verify

Spec == Init /\ [][Next]_vars

(***************************************************************************)
(* The claims                                                              *)
(***************************************************************************)
HasCode(res, code) == \E i \in 1..Len(res.errors) : res.errors[i].code = code
Contains(errors, e) == \E i \in 1..Len(errors) : errors[i] = e

Verified == pc = "verified"
\* the bundle as sealed and assembled verifies under the options of this verification
SealedVerifies ==
  LET r == verifyBundle(Assembled(sealed), options) IN ~r.threw /\ r.valid
\* the only change since sealing is to one field
OnlyTamper(kind, field) ==
  Verified /\ tamper.kind = kind /\ tamper.field = field /\ removed = NoRemoval
Rejected(code) == ~result.threw /\ ~result.valid /\ HasCode(result, code)

\* C1: the bundle assembled from what sealBundle returned, with a bundle_id,
\* version "0.2.0" and created_at, verifies under default options as valid
\* with no errors, for every item list sealBundle accepts.
C1_RoundTrip ==
  (Verified /\ tamper = NoTamper /\ removed = NoRemoval /\ sealOptions = <<>> /\ options = <<>>)
    => (~result.threw /\ result.valid /\ result.errors = <<>>)

C1_Witness ==
  /\ Verified /\ tamper = NoTamper /\ removed = NoRemoval /\ sealOptions = <<>> /\ options = <<>>
  /\ Len(sealed.items) = 2
  /\ result.valid

OriginalContent == Get(sealed.items[tamper.seq + 1], "content")

\* C2 as claimed: replacing the content of one item of a sealed bundle that
\* verifies by any different value yields valid = false and CONTENT_HASH_MISMATCH.
C2_Original ==
  (OnlyTamper("item", "content") /\ SealedVerifies) => Rejected("CONTENT_HASH_MISMATCH")

\* C2 amended: replacing the content of one item of a sealed bundle that
\* verifies by a value whose canonical JSON text differs from the sealed
\* content's yields valid = false and CONTENT_HASH_MISMATCH.
C2_ContentTamper ==
  (/\ OnlyTamper("item", "content") /\ SealedVerifies
   /\ canonicalJson(tamper.value) # canonicalJson(OriginalContent))
    => Rejected("CONTENT_HASH_MISMATCH")

C2_Witness ==
  /\ OnlyTamper("item", "content") /\ SealedVerifies
  /\ tamper.seq = 1
  /\ canonicalJson(tamper.value) # canonicalJson(OriginalContent)
  /\ Rejected("CONTENT_HASH_MISMATCH")

\* C3: changing the previous_hash of any link of a sealed bundle that verifies
\* to any other value yields valid = false and HASH_CHAIN_BROKEN.
C3_Original ==
  (OnlyTamper("link", "previous_hash") /\ SealedVerifies) => Rejected("HASH_CHAIN_BROKEN")

\* C4: changing the root_hash of a sealed bundle that verifies to any other
\* value yields valid = false and ROOT_HASH_MISMATCH.
C4_Original ==
  (OnlyTamper("root", "root_hash") /\ SealedVerifies) => Rejected("ROOT_HASH_MISMATCH")

\* C5: removing any item of a sealed bundle that verifies, the chain left as
\* it is, yields valid = false and LENGTH_MISMATCH; and LENGTH_MISMATCH is
\* reported whenever the number of items differs from the number of links.
C5_Original ==
  /\ (Verified /\ tamper = NoTamper /\ removed.kind = "item" /\ SealedVerifies)
       => Rejected("LENGTH_MISMATCH")
  /\ (Verified /\ HasItems(bundle) /\ HasChain(bundle)
      /\ Len(Items(bundle)) # Len(Chain(bundle)))
       => (~result.threw /\ HasCode(result, "LENGTH_MISMATCH"))

\* what sealBundle makes of the (item_id, content_type, content) of the bundle's items
Resealed ==
  sealBundle(Rec([items |-> Arr([i \in 1..Len(Items(bundle)) |->
               Rec([item_id |-> Get(Items(bundle)[i], "item_id"),
                    content_type |-> Get(Items(bundle)[i], "content_type"),
                    content |-> Get(Items(bundle)[i], "content")])])]), <<>>)

SameFields(x, y, fields) == \A f \in fields : Get(x, f) = Get(y, f)

\* C6: a bundle that verifyBundle reports valid under default options, its
\* items having non-empty item_id and content_type and object content, holds
\* exactly the content_hash, sequence, links and root_hash that sealBundle
\* produces from its items.
C6_Original ==
  (/\ Verified /\ options = <<>> /\ ~result.threw /\ result.valid
   /\ IsNullish(Get(bundle, "signatures"))
   /\ \A i \in 1..Len(Items(bundle)) :
        /\ IsString(Get(Items(bundle)[i], "item_id")) /\ Truthy(Get(Items(bundle)[i], "item_id"))
        /\ IsString(Get(Items(bundle)[i], "content_type"))
        /\ Truthy(Get(Items(bundle)[i], "content_type"))
        /\ Get(Items(bundle)[i], "content").t = "object")
    => /\ ~Resealed.threw
       /\ Len(Chain(bundle)) = Len(Items(bundle))
       /\ \A i \in 1..Len(Items(bundle)) :
            /\ SameFields(Items(bundle)[i], Resealed.items[i], {"content_hash", "sequence"})
            /\ SameFields(Chain(bundle)[i], Get(Resealed.immutabilityProof, "hash_chain").v[i],
                          LinkFields)
       /\ Get(Proof(bundle), "root_hash") = Get(Resealed.immutabilityProof, "root_hash")

\* C7: verifyBundle returns a result for every bundle; no exception escapes it.
C7_Original == Verified => ~result.threw

\* C8: in every result verifyBundle returns, valid is true exactly when the
\* list of errors is empty.
C8_Original == (Verified /\ ~result.threw) => (result.valid <=> result.errors = <<>>)

\* the errors of the stages of verifyBundle, each stage run on its own
StageErrors ==
  LET items == Get(bundle, "items")
      proof == Get(bundle, "immutability_proof")
      stages == <<verifyContentHashes(items), verifyHashChain(Get(proof, "hash_chain"), options),
                  verifyRootHash(proof), verifySignatures(bundle, options)>>
  IN {e \in UNION {{stages[k].errors[i] : i \in 1..Len(stages[k].errors)} : k \in 1..4} : TRUE}

\* C9: for a bundle whose items and immutability_proof are present, the errors
\* of verifyBundle contain every error that verifyContentHashes,
\* verifyHashChain, verifyRootHash and verifySignatures report on their own.
C9_Original ==
  (/\ Verified /\ ~result.threw
   /\ ~IsNullish(Get(bundle, "items")) /\ ~IsNullish(Get(bundle, "immutability_proof")))
    => \A e \in StageErrors : Contains(result.errors, e)

AcceptedVersions == {Str(<<"0", ".", "2", ".", "0">>), Str(<<"0", ".", "2", ".", "1">>)}

\* C10: a bundle whose version is present and is not an accepted version
\* string is reported valid = false with an UNSUPPORTED_VERSION error.
C10_Original ==
  (/\ Verified /\ ~result.threw
   /\ ~IsNullish(Get(bundle, "version")) /\ Get(bundle, "version") \notin AcceptedVersions)
    => (~result.valid /\ HasCode(result, "UNSUPPORTED_VERSION"))

Version021 == Str(<<"0", ".", "2", ".", "1">>)

\* C11: a sealed bundle that verifies with version "0.2.0" verifies as valid,
\* with no UNSUPPORTED_VERSION error, when its version is "0.2.1".
C11_Original ==
  (OnlyTamper("top", "version") /\ tamper.value = Version021 /\ SealedVerifies)
    => (~result.threw /\ result.valid /\ ~HasCode(result, "UNSUPPORTED_VERSION"))

\* the codes of the spec's taxonomy
Taxonomy == ErrorCodes \cup {"UNSUPPORTED_VERSION"}

\* C12: every error of every result of verifyBundle and of the four
\* sub-verifications carries a code of the taxonomy.
C12_Original ==
  (Verified /\ ~result.threw)
    => /\ \A i \in 1..Len(result.errors) : result.errors[i].code \in Taxonomy
       /\ (~IsNullish(Get(bundle, "immutability_proof")) => \A e \in StageErrors : e.code \in Taxonomy)

\* the MISSING_REQUIRED_FIELD errors of the result whose details name field f
MissingErrors(f) ==
  {i \in 1..Len(result.errors) :
     result.errors[i].code = "MISSING_REQUIRED_FIELD" /\ result.errors[i].field = f}
Absent(f) == Get(bundle, f).t \in {"undefined", "null"}
RequiredFieldSet == {"bundle_id", "version", "created_at", "items", "immutability_proof"}

\* C13: whichever of the five required fields are absent (undefined or null),
\* verifyBundle returns valid = false with exactly one MISSING_REQUIRED_FIELD
\* error naming each absent field, and none naming a field that is present.
C13_MissingFields ==
  (Verified /\ \E f \in RequiredFieldSet : Absent(f))
    => /\ ~result.threw /\ ~result.valid
       /\ \A f \in RequiredFieldSet :
            Cardinality(MissingErrors(f)) = IF Absent(f) THEN 1 ELSE 0

C13_Witness ==
  /\ Verified /\ ~result.threw
  /\ Absent("bundle_id") /\ Get(bundle, "version").t = "null" /\ Absent("immutability_proof")
  /\ ~Absent("items") /\ ~Absent("created_at")
  /\ Cardinality(MissingErrors("bundle_id")) = 1
  /\ Cardinality(MissingErrors("immutability_proof")) = 1

LaterStageSites ==
  {"item.content", "items.input", "link.sequence", "link.previous_hash", "link.v020_fields",
   "link.chain_hash", "chain.input", "root.input", "root.root_hash", "bundle.length",
   "cross.sequence", "cross.content_hash", "cross.item_id", "cross.content_type",
   "sig.missing_value", "sig.no_secret", "sig.hmac", "sig.no_key", "sig.failed"}

\* C14: with items or immutability_proof absent, verifyBundle returns
\* valid = false and no error of the content, chain, root, length, cross-check
\* and signature stages; with both present every one of those stages runs and
\* its errors are in the result.
C14_Original ==
  /\ (Verified /\ (Absent("items") \/ Absent("immutability_proof")))
       => /\ ~result.threw /\ ~result.valid
          /\ \A i \in 1..Len(result.errors) : result.errors[i].site \notin LaterStageSites
  /\ (Verified /\ ~result.threw /\ ~Absent("items") /\ ~Absent("immutability_proof"))
       => /\ \A e \in StageErrors : Contains(result.errors, e)
          /\ (~StrictEq(Length(Get(bundle, "items")), Length(Get(Proof(bundle), "hash_chain")))
                => HasCode(result, "LENGTH_MISMATCH"))

\* C15: every link of every chain sealBundle returns carries the chain hash
\* of the five-field formula, whatever options were passed.
C15_Original ==
  (pc = "sealed" /\ ~sealed.threw)
    => \A i \in 1..Len(sealed.items) :
         LET link == Get(sealed.immutabilityProof, "hash_chain").v[i]
         IN Get(link, "chain_hash") =
              Str(chainHashV020(Get(link, "sequence"), Get(link, "item_id"),
                                Get(link, "content_type"), Get(link, "content_hash"),
                                Get(link, "previous_hash")))

\* the caller's acceptProofVersions names "legacy"
OptsIn(o) == "acceptProofVersions" \in DOMAIN o /\ Includes(o.acceptProofVersions, "legacy")

\* link's chain_hash is the three-field hash of its fields and not the five-field one
LegacyOnly(link) ==
  /\ Get(link, "chain_hash") =
       Str(chainHashLegacy(Get(link, "sequence"), Get(link, "content_hash"),
                           Get(link, "previous_hash")))
  /\ Get(link, "chain_hash") #
       Str(chainHashV020(Get(link, "sequence"), Get(link, "item_id"),
                         Get(link, "content_type"), Get(link, "content_hash"),
                         Get(link, "previous_hash")))

\* the result reports the chain hash of link seq as wrong
ChainHashRefused(seq) ==
  \E i \in 1..Len(result.errors) :
    /\ result.errors[i].code = "HASH_CHAIN_BROKEN"
    /\ result.errors[i].site = "link.chain_hash"
    /\ result.errors[i].seq = seq

LegacyLinks ==
  IF HasChain(bundle)
  THEN {i \in 1..Len(Chain(bundle)) : ~IsNullish(Chain(bundle)[i]) /\ LegacyOnly(Chain(bundle)[i])}
  ELSE {}

\* verifyBundle came to its chain stage and returned
ChainStageRan ==
  Verified /\ ~result.threw /\ Truthy(Get(bundle, "items")) /\ Truthy(Proof(bundle))

C17_Original ==
  (pc = "called" /\ call.fn = "computeRootHash" /\ call.n = 0) => call.threw

\* every item of the list handed to sealBundle has an item_id and a content_type
AllItemsNamed ==
  /\ IsArray(Get(sealInput, "items"))
  /\ \A i \in 1..Len(Get(sealInput, "items").v) :
       /\ Truthy(Get(Get(sealInput, "items").v[i], "item_id"))
       /\ Truthy(Get(Get(sealInput, "items").v[i], "content_type"))

\* C18: buildHashChain, and sealBundle through it, succeeds for 1 to 10,000
\* items with one link per item and fails above 10,000 items before it
\* hashes any content.
C18_Ceiling ==
  /\ (pc = "called" /\ call.fn = "buildHashChain")
       => /\ (call.n >= 1 /\ call.n <= 10000) => ~call.threw
          /\ (call.n >= 1 /\ call.n <= MaxItems) => call.links = call.n
          /\ call.n > 10000 => (call.threw /\ call.hashed = 0 /\ call.links = 0)
  /\ (pc \in {"sealed", "sealFailed"} /\ AllItemsNamed /\ Len(Get(sealInput, "items").v) >= 1)
       => /\ sealed.threw <=> Len(Get(sealInput, "items").v) > 10000
          /\ ~sealed.threw =>
               Len(Get(sealed.immutabilityProof, "hash_chain").v) = Len(Get(sealInput, "items").v)

C18_Witness ==
  /\ pc = "called" /\ call.fn = "buildHashChain"
  /\ call.n = 10001 /\ call.threw /\ call.hashed = 0

NotGiven(item, f) == Get(item, f) \in {Undefined, Null, Str(<<>>)}
Offending(list) == {i \in 1..Len(list) : NotGiven(list[i], "item_id") \/ NotGiven(list[i], "content_type")}
Lowest(S) == CHOOSE i \in S : \A j \in S : i <= j

\* C19: sealBundle fails, with no part of a result, when the item list is
\* missing or empty or an item lacks a non-empty item_id or content_type; the
\* error names the lowest such item and its field, item_id before content_type.
C19_SealValidation ==
  pc \in {"sealed", "sealFailed"} =>
    LET in == Get(sealInput, "items")
    IN /\ (~IsArray(in) \/ Len(in.v) = 0)
            => (pc = "sealFailed" /\ sealed.threw /\ sealed.field = "items"
                /\ sealed.items = <<>> /\ sealed.immutabilityProof = Undefined)
       /\ (IsArray(in) /\ Offending(in.v) # {})
            => /\ pc = "sealFailed" /\ sealed.threw
               /\ sealed.items = <<>> /\ sealed.immutabilityProof = Undefined
               /\ sealed.index = Lowest(Offending(in.v)) - 1
               /\ sealed.field = IF NotGiven(in.v[Lowest(Offending(in.v))], "item_id")
                                 THEN "item_id" ELSE "content_type"

C19_Witness ==
  /\ pc = "sealFailed" /\ IsArray(Get(sealInput, "items"))
  /\ Len(Get(sealInput, "items").v) = 2
  /\ Offending(Get(sealInput, "items").v) = {2}
  /\ NotGiven(Get(sealInput, "items").v[2], "item_id")
  /\ NotGiven(Get(sealInput, "items").v[2], "content_type")
  /\ sealed.index = 1 /\ sealed.field = "item_id"

\* C20: a successful sealBundle on n items returns n items and n links; item i
\* has sequence i and the content hash of its content, which is link i's;
\* link i has sequence i and the item_id and content_type of input item i;
\* root_hash is computeRootHash of the returned chain.
C20_SealedShape ==
  pc = "sealed" =>
    LET in == Get(sealInput, "items").v
        chain == Get(sealed.immutabilityProof, "hash_chain").v
    IN /\ Len(sealed.items) = Len(in) /\ Len(chain) = Len(in)
       /\ \A i \in 1..Len(in) :
            /\ Get(sealed.items[i], "sequence") = Num(i - 1)
            /\ Get(sealed.items[i], "content_hash")
                 = Str(computeContentHash(Get(sealed.items[i], "content")))
            /\ Get(sealed.items[i], "content_hash") = Get(chain[i], "content_hash")
            /\ Get(chain[i], "sequence") = Num(i - 1)
            /\ Get(chain[i], "item_id") = Get(in[i], "item_id")
            /\ Get(chain[i], "content_type") = Get(in[i], "content_type")
       /\ Get(sealed.immutabilityProof, "root_hash") = Str(computeRootHash(chain))

C20_Witness ==
  /\ pc = "sealed" /\ Len(sealed.items) = 2
  /\ Get(sealed.items[2], "sequence") = Num(1)
  /\ Get(sealed.items[1], "item_id") # Get(sealed.items[2], "item_id")

\* the links of a chain are linked: the first to the genesis sentinel, every
\* other to the chain_hash of the link before it, each numbered by its index
Linked(chain) ==
  \A i \in 1..Len(chain) :
    /\ Get(chain[i], "sequence") = Num(i - 1)
    /\ Get(chain[i], "previous_hash")
         = (IF i = 1 THEN Str(<<"g", "e", "n", "e", "s", "i", "s">>)
            ELSE Get(chain[i - 1], "chain_hash"))

\* C21: every chain buildHashChain returns on n >= 1 items, under either
\* proof version, has previous_hash "genesis" in its first link and the
\* chain_hash of link i-1 in link i, and every link's sequence is its index.
C21_ChainLinkage ==
  /\ (pc = "called" /\ call.fn = "buildHashChain" /\ ~call.threw /\ call.links >= 1)
       => (Len(call.value) = call.n /\ Linked(call.value))
  /\ pc = "sealed" => Linked(Get(sealed.immutabilityProof, "hash_chain").v)

C21_Witness ==
  /\ pc = "called" /\ call.fn = "buildHashChain" /\ call.n = 2 /\ ~call.threw
  /\ sealOptions = [proofVersion |-> "legacy"]
  /\ Get(call.value[2], "previous_hash") = Get(call.value[1], "chain_hash")
  /\ Get(call.value[2], "previous_hash") # Str(<<"g", "e", "n", "e", "s", "i", "s">>)

\* the error the cross-check of verifyBundle pushes for field f of index seq
CrossError(seq, f) ==
  Err(IF f = "sequence" THEN "SEQUENCE_GAP" ELSE "CONTENT_HASH_MISMATCH",
      CASE f = "sequence" -> "cross.sequence"
        [] f = "content_hash" -> "cross.content_hash"
        [] f = "item_id" -> "cross.item_id"
        [] f = "content_type" -> "cross.content_type",
      seq, f)

\* the indices below both the item count and the chain length
Paired(b) ==
  IF HasItems(b) /\ HasChain(b) THEN 1..Min(Len(Items(b)), Len(Chain(b))) ELSE {}

\* C22: for every index below both the item count and the chain length,
\* verifyBundle reports SEQUENCE_GAP when the item's sequence is not its
\* position and one CONTENT_HASH_MISMATCH for each of content_hash, item_id
\* and content_type in which item and link differ, whatever proof versions
\* are accepted and also when the link has no item_id or content_type.
C22_Original ==
  Verified =>
    \A i \in Paired(bundle) :
      /\ Get(Items(bundle)[i], "sequence") # Num(i - 1)
           => Contains(result.errors, CrossError(i - 1, "sequence"))
      /\ \A f \in {"content_hash", "item_id", "content_type"} :
           Get(Items(bundle)[i], f) # Get(Chain(bundle)[i], f)
             => Contains(result.errors, CrossError(i - 1, f))

\* the signatures of bundle b, none when the field is absent
SignaturesOf(b) == IF IsArray(Get(b, "signatures")) THEN Get(b, "signatures").v ELSE <<>>

\* the bytes a signature of bundle b is made over: b without its signatures
SignedContent(b) ==
  canonicalBytes(Rec([f \in DOMAIN b.r \ {"signatures"} |-> b.r[f]]))

\* signature sig of bundle b is at fault under key material o: it has no
\* signature_value, no usable secret or key, an unsupported algorithm, or a
\* value that is not the signature of the signed content
SignatureFault(sig, b, o) ==
  LET value == Get(sig, "signature_value")
      algo == Get(sig, "algorithm")
  IN \/ value \in {Undefined, Null, Str(<<>>)}
     \/ /\ algo = Str(<<"hmac-sha256">>)
        /\ \/ "hmacSecret" \notin DOMAIN o
           \/ value # Str(Hmac(o.hmacSecret, SignedContent(b)))
     \/ /\ algo # Str(<<"hmac-sha256">>)
        /\ \/ resolvePublicKey(sig, o) = ""
           \/ algo \notin {Str(<<"ed25519">>), Str(<<"rsa-sha256">>), Str(<<"ecdsa-p256">>)}
           \/ value # Str(SignatureOf(resolvePublicKey(sig, o), SignedContent(b)))

\* the SIGNATURE_INVALID errors reported for the signature at index idx
SignatureErrors(errors, idx) ==
  SelectSeq(errors, LAMBDA e : e.code = "SIGNATURE_INVALID" /\ e.seq = idx)

\* C23: verifySignatures never throws; on a bundle without signatures it
\* returns valid with no errors whatever the key material; otherwise it
\* reports exactly one SIGNATURE_INVALID error for every signature at fault
\* (no signature_value, no usable secret or key, unsupported algorithm, wrong
\* value) and none for the others, going on through all the signatures.
C23_Original ==
  (pc = "called" /\ call.fn = "verifySignatures") =>
    /\ ~call.threw
    /\ SignaturesOf(bundle) = <<>> => (call.value.valid /\ call.value.errors = <<>>)
    /\ \A i \in 1..Len(SignaturesOf(bundle)) :
         Len(SignatureErrors(call.value.errors, i - 1))
           = (IF SignatureFault(SignaturesOf(bundle)[i], bundle, options) THEN 1 ELSE 0)
    /\ Len(call.value.errors) <= Len(SignaturesOf(bundle))

\* what verifySignatures(b, o) does about the signature at index idx of b
Outcome(b, o, idx) ==
  LET r == verifySignatures(b, o)
  IN IF r.threw THEN "throws"
     ELSE IF SignatureErrors(r.errors, idx) # <<>> THEN "SIGNATURE_INVALID" ELSE "verifies"

\* C24: whether a signature verifies depends only on the bundle without its
\* signatures, the signature and the key material: the other signatures of
\* the list, their number and their order do not change it; and changing
\* any other top-level field of a bundle that carries a valid hmac-sha256
\* signature makes that signature SIGNATURE_INVALID.
C24_Original ==
  (pc = "called" /\ call.fn = "verifySignatures") =>
    \A i \in 1..Len(SignaturesOf(bundle)) :
      /\ Outcome(bundle, options, i - 1)
           = Outcome(WithField(bundle, "signatures", Arr(<<SignaturesOf(bundle)[i]>>)), options, 0)
      /\ ( /\ tamper.kind = "signed"
           /\ "hmacSecret" \in DOMAIN options
           /\ SignaturesOf(bundle)[i] = HmacSignature(Assembled(sealed)) )
           => SignatureErrors(call.value.errors, i - 1) # <<>>

\* v and w have the same key-to-value mapping at every level
RECURSIVE SameMapping(_, _)
SameMapping(v, w) ==
  IF v.t = "object" /\ w.t = "object"
  THEN /\ Len(v.v) = Len(w.v)
       /\ {v.v[i].k : i \in 1..Len(v.v)} = {w.v[i].k : i \in 1..Len(w.v)}
       /\ \A i \in 1..Len(v.v) : \A j \in 1..Len(w.v) :
            v.v[i].k = w.v[j].k => SameMapping(v.v[i].v, w.v[j].v)
  ELSE IF v.t = "array" /\ w.t = "array"
  THEN /\ Len(v.v) = Len(w.v)
       /\ \A i \in 1..Len(v.v) : SameMapping(v.v[i], w.v[i])
  ELSE v = w

Hashed == pc = "called" /\ call.fn = "computeContentHash"

\* C25: canonicalJson and computeContentHash give the same text and the same
\* hash on repeated calls and for any two values with the same key-to-value
\* mapping at every level, whatever the insertion order of their keys.
C25_Determinism ==
  (Hashed /\ SameMapping(call.value.first, call.value.second))
    => /\ call.value.texts[1] = call.value.texts[2]
       /\ call.value.hashes[1] = call.value.hashes[2]

C25_Witness ==
  /\ Hashed /\ SameMapping(call.value.first, call.value.second)
  /\ call.value.first # call.value.second
  /\ \E i \in 1..Len(call.value.first.v) : call.value.first.v[i].v.t = "array"
  /\ call.value.hashes[1] = call.value.hashes[2]

\* the Unicode code point of a character
CodePoint(c) ==
  CASE c = "U+FF5E" -> 65374
    [] c = "U+1F600" -> 128512
    [] OTHER -> CodeUnits(c)[1]

\* the place of character c in a text, 0 when it is not there
Position(text, c) ==
  IF \E i \in 1..Len(text) : text[i] = c
  THEN CHOOSE i \in 1..Len(text) : text[i] = c /\ \A j \in 1..(i - 1) : text[j] # c
  ELSE 0

\* an object whose keys are single characters and whose values are numbers or undefined
IsFlat(v) ==
  /\ v.t = "object"
  /\ \A i \in 1..Len(v.v) : Len(v.v[i].k) = 1 /\ v.v[i].v.t \in {"number", "undefined"}

\* C26: canonicalJson emits the members of an object in ascending order of
\* their keys compared by Unicode code point, also for keys outside the Basic
\* Multilingual Plane, and omits the members whose value is undefined.
C26_Original ==
  (Hashed /\ IsFlat(call.value.first)) =>
    LET v == call.value.first
        text == call.value.texts[1]
    IN \A i \in 1..Len(v.v) :
         /\ v.v[i].v.t = "undefined" <=> Position(text, v.v[i].k[1]) = 0
         /\ \A j \in 1..Len(v.v) :
              ( /\ v.v[i].v.t # "undefined" /\ v.v[j].v.t # "undefined"
                /\ CodePoint(v.v[i].k[1]) < CodePoint(v.v[j].k[1]) )
                => Position(text, v.v[i].k[1]) < Position(text, v.v[j].k[1])

\* the input of a sub-check is empty or malformed: not a non-empty array, or
\* a proof without a non-empty hash_chain array
Malformed(fn, x) ==
  LET list == IF fn = "verifyRootHash" THEN Get(x, "hash_chain") ELSE x
  IN list.t # "array" \/ Len(list.v) = 0

\* C27: verifyContentHashes and verifyHashChain on an empty or non-array
\* input, and verifyRootHash on a proof without a non-empty hash_chain array,
\* return valid = false with exactly one error, INPUT_VALIDATION_FAILED; and
\* verifyBundle never reports a bundle of zero items or zero links valid.
C27_EmptyInput ==
  /\ (pc = "called" /\ call.fn \in SubChecks /\ Malformed(call.fn, call.value.input))
       => /\ ~call.value.result.threw /\ ~call.value.result.valid
          /\ Len(call.value.result.errors) = 1
          /\ call.value.result.errors[1].code = "INPUT_VALIDATION_FAILED"
  /\ ( /\ Verified
       /\ \/ Get(bundle, "items") = Arr(<<>>)
          \/ Get(Get(bundle, "immutability_proof"), "hash_chain") = Arr(<<>>) )
       => ~result.valid

C27_Witness ==
  /\ pc = "called" /\ call.fn = "verifyContentHashes" /\ call.value.input = Arr(<<>>)
  /\ Len(call.value.result.errors) = 1 /\ ~call.value.result.valid

\* the identity (item_id, content_type) of an item or a link
Identity(x) == <<Get(x, "item_id"), Get(x, "content_type")>>

\* C28: under default options, a sealed bundle that verifies no longer
\* verifies once the item_id and/or content_type of an item is changed to
\* different values in the item and identically in its link, the hashes
\* left unchanged, for all identifier strings, the "|" delimiter included.
C28_Original ==
  ( /\ Verified /\ tamper.kind = "identity" /\ removed = NoRemoval /\ options = <<>>
    /\ SealedVerifies
    /\ Identity(Items(bundle)[tamper.seq + 1]) # Identity(sealed.items[tamper.seq + 1]) )
    => (~result.threw /\ ~result.valid)

\* the sealed items differ pairwise in (item_id, content_type, content)
PairwiseDistinct(items) ==
  \A i, j \in 1..Len(items) :
    i # j => <<Get(items[i], "item_id"), Get(items[i], "content_type"), Get(items[i], "content")>>
               # <<Get(items[j], "item_id"), Get(items[j], "content_type"), Get(items[j], "content")>>

\* C29: under default options, a sealed bundle of two or more pairwise
\* different items no longer verifies once its items, its chain links or
\* both are rearranged, also when the sequence fields are renumbered.
C29_Original ==
  ( /\ Verified /\ tamper.kind = "permute" /\ removed = NoRemoval /\ options = <<>>
    /\ SealedVerifies /\ PairwiseDistinct(sealed.items) )
    => (~result.threw /\ ~result.valid)

\* the stage of verifyBundle that pushes an error, by the statement pushing it
Stage(site) ==
  CASE site = "bundle.required" -> 1
    [] site = "bundle.version" -> 2
    [] site \in {"items.input", "item.content"} -> 3
    [] site \in {"chain.input", "link.sequence", "link.previous_hash", "link.v020_fields",
                 "link.chain_hash"} -> 4
    [] site \in {"root.input", "root.root_hash"} -> 5
    [] site = "bundle.length" -> 6
    [] site \in {"cross.sequence", "cross.content_hash", "cross.item_id", "cross.content_type"} -> 7
    [] OTHER -> 8

\* the place of an error among those of one link of verifyHashChain
LinkStep(site) ==
  CASE site = "link.sequence" -> 1
    [] site = "link.previous_hash" -> 2
    [] site = "link.v020_fields" -> 3
    [] OTHER -> 4

\* the errors of verifyHashChain are in ascending link index and, for one
\* link, sequence before previous_hash before chain_hash; when the first
\* faulty link has a wrong sequence number the first error is SEQUENCE_GAP
ChainOrdered(chain, errors) ==
  /\ \A i, j \in 1..Len(errors) :
       i < j => \/ errors[i].seq < errors[j].seq
                \/ /\ errors[i].seq = errors[j].seq
                   /\ LinkStep(errors[i].site) < LinkStep(errors[j].site)
  /\ ( /\ errors # <<>> /\ errors[1].seq >= 0
       /\ Get(chain[errors[1].seq + 1], "sequence") # Num(errors[1].seq) )
       => errors[1].code = "SEQUENCE_GAP"

\* C30: verifyBundle appends its errors in stage order (required fields,
\* version, content hashes, hash chain, root hash, length, cross-check,
\* signatures); verifyHashChain appends in ascending link index and, for one
\* link, SEQUENCE_GAP before the previous_hash error before the chain_hash
\* error, so a first faulty link with a wrong sequence gives SEQUENCE_GAP first.
C30_ErrorOrdering ==
  /\ (Verified /\ ~result.threw)
       => /\ \A i, j \in 1..Len(result.errors) :
               i < j => Stage(result.errors[i].site) <= Stage(result.errors[j].site)
          /\ HasChain(bundle)
               => ChainOrdered(Chain(bundle),
                               SelectSeq(result.errors, LAMBDA e : Stage(e.site) = 4))
  /\ (pc = "called" /\ call.fn = "verifyHashChain" /\ call.value.input.t = "array"
       /\ ~call.value.result.threw)
       => ChainOrdered(call.value.input.v, call.value.result.errors)

C30_Witness ==
  /\ pc = "called" /\ call.fn = "verifyHashChain" /\ ~call.value.result.threw
  /\ Len(call.value.result.errors) >= 3
  /\ call.value.result.errors[1].code = "SEQUENCE_GAP"
  /\ call.value.result.errors[2].site = "link.previous_hash"
  /\ call.value.result.errors[1].seq = 0
  /\ \E i \in 1..Len(call.value.result.errors) : call.value.result.errors[i].seq = 1
====
